---- MODULE Spec2Model ----
(***************************************************************************)
(* A model of locust_test/locustfile_break_check.py: the entry point       *)
(* run_break_test, LoadTestRunner.run_concurrent_tests (the orchestrator), *)
(* LoadTestRunner._run_single_test (one runner per URL), the external      *)
(* load-test subprocesses they drive, and the report file name computed by *)
(* save_results inside each subprocess.                                    *)
(*                                                                         *)
(* Strings that the code transforms (URLs, file names) are tuples of       *)
(* one-character strings, so that str.replace is computed, not assumed.    *)
(*                                                                         *)
(* asyncio is modelled as documented for asyncio.run / asyncio.gather /    *)
(* Task.cancel (CPython 3.11 and later): gather without return_exceptions  *)
(* resolves with the first child exception or cancellation; SIGINT cancels *)
(* the main task; when the main task is done asyncio.run cancels every     *)
(* task that is left, waits for them, and only then returns or raises.     *)
(***************************************************************************)
EXTENDS Naturals, Sequences, FiniteSets

\* ------------------------------------------------------------------ bounds

\* Longest input URL list handed to run_break_test.
MaxUrls == 3

\* Most stdout lines a runner reads from one subprocess.
MaxLines == 1

\* Most parts a host string of the file-name specification is built from.
MaxParts == 3

\* What the stderr pipe of a subprocess holds before a write to it blocks, in
\* units of output (the operating system's pipe capacity).
PipeCap == 1

\* Most units of output a subprocess writes to its stderr in one run.
MaxErr == 2

\* Most stdout lines a runner reads from one subprocess where the forwarding
\* of the lines is what is looked at.
MaxOut == 2

\* ----------------------------------------------------------------- strings

HTTPS == <<"h", "t", "t", "p", "s", ":", "/", "/">>

HTTP == <<"h", "t", "t", "p", ":", "/", "/">>

DotJson == <<".", "j", "s", "o", "n">>

\* "https://a.b" and "http://a.b": two distinct URL strings.
UrlPool == { HTTPS \o <<"a", ".", "b">>, HTTP \o <<"a", ".", "b">> }

\* "https://example.com"
ExampleUrl == HTTPS \o <<"e", "x", "a", "m", "p", "l", "e", ".", "c", "o", "m">>

\* "example_com.json"
ExampleName == <<"e", "x", "a", "m", "p", "l", "e", "_", "c", "o", "m">> \o DotJson

\* str.replace(old, new): every non-overlapping occurrence, left to right.
RECURSIVE Replace(_, _, _)
Replace(s, old, new) ==
  IF Len(s) < Len(old) THEN s
  ELSE IF SubSeq(s, 1, Len(old)) = old
       THEN new \o Replace(SubSeq(s, Len(old) + 1, Len(s)), old, new)
       ELSE <<Head(s)>> \o Replace(Tail(s), old, new)

\* The second replace of save_results' chain: .replace('http://', '').
StripHttp(s) == Replace(s, HTTP, <<>>)

\* url_part of save_results.
UrlPart(h) ==
  Replace(Replace(StripHttp(Replace(h, HTTPS, <<>>)), <<"/">>, <<"_">>), <<".">>, <<"_">>)

\* results_dir of save_results.
ResultsDir == <<"performance_tests", "break_check">>

\* filename of save_results: results_dir / f"{url_part}.json".
ReportPath(h) == [dir |-> ResultsDir, name |-> UrlPart(h) \o DotJson]

\* ------------------------------------------------------------------- state

VARIABLES
  base_dir,      \* the base_dir the LoadTestRunner is made with
  urls,          \* the argument of run_break_test
  pc,            \* run_break_test: "start", "run", "shutdown", "returned", "propagated"
  constructed,   \* LoadTestRunner() has run (base_dir created)
  result,        \* how asyncio.run ends: "none", "ok", "error", "kbd", "cancelled"
  mpc,           \* run_concurrent_tests: "new", "gather", "returned", "raised", "cancelled"
  outer,         \* the future gather returns: "pending", "ok", "error", "cancelled"
  gatherCancel,  \* gather's _cancel_requested
  mustCancel,    \* the main task's _must_cancel
  interrupted,   \* SIGINT has been delivered to asyncio.run's handler
  unique_urls,   \* run_concurrent_tests: the de-duplicated list
  task,          \* one record per runner task, in creation order
  proc,          \* the subprocess of each runner
  startOrder,    \* the runners' indexes in the order their bodies started
  elog,          \* what run_break_test and run_concurrent_tests logged
  tlog,          \* what each runner logged, per runner
  files,         \* report writes so far: records [path, writer]
  host,          \* file-name specification: environment.host
  filename       \* file-name specification: the path save_results opened

vars == <<base_dir, urls, pc, constructed, result, mpc, outer, gatherCancel, mustCancel,
          interrupted, unique_urls, task, proc, startOrder, elog, tlog, files, host, filename>>

progVars == <<base_dir, urls, pc, constructed, result, mpc, outer, gatherCancel, mustCancel,
              interrupted, unique_urls, task, proc, startOrder, elog, tlog, files>>

Terminal == {"done", "raised", "cancelled"}

\* Bytes that str.strip() removes.
Whitespace == {" ", "\n"}

RECURSIVE LStrip(_)
LStrip(s) == IF s # <<>> /\ Head(s) \in Whitespace THEN LStrip(Tail(s)) ELSE s

RECURSIVE RStrip(_)
RStrip(s) ==
  IF s # <<>> /\ s[Len(s)] \in Whitespace THEN RStrip(SubSeq(s, 1, Len(s) - 1)) ELSE s

\* text.strip()
Strip(s) == RStrip(LStrip(s))

\* line.decode() succeeds: "#" stands for a byte that is not valid UTF-8.
Decodes(line) == \A k \in DOMAIN line : line[k] # "#"

\* The stdout lines a child writes, as readline returns them (newline
\* included): a line of text, a line that does not decode.
Lines == { <<"a", "\n">>, <<"#", "\n">> }

\* More lines: a blank line, text with blanks around it.
OutLines == Lines \cup { <<"\n">>, <<" ", "b", " ", "\n">> }

RECURSIVE SeqsUpTo(_, _)
SeqsUpTo(S, n) ==
  IF n = 0 THEN {<<>>}
  ELSE LET shorter == SeqsUpTo(S, n - 1)
       IN shorter \cup {Append(s, x) : s \in shorter, x \in S}

Range(s) == {s[i] : i \in DOMAIN s}

\* st: "none", "running", "exited" (dead, stdout closed, not yet reaped by the
\* loop), "reaped" (returncode set); code: how it ended; lines: stdout lines
\* the runner has received; termSent: calls of process.terminate(); killed:
\* killed by create_subprocess_exec's own cleanup; errWant: what the run
\* writes to stderr in all; err: what it has written, all of it still in the
\* pipe, since nothing in the program reads process.stderr.
\* host: the --host it was launched with; got: the stdout lines the runner
\* has received, in order; spawns: children the runner has spawned;
\* termLate: process.terminate() was called with the exit code already seen.
NoProc == [st |-> "none", code |-> "none", lines |-> 0, termSent |-> 0, killed |-> FALSE,
           errWant |-> 0, err |-> 0, host |-> <<>>, got |-> <<>>, spawns |-> 0,
           termLate |-> FALSE]

NoFile == [dir |-> <<>>, name |-> <<>>]

\* A record of the module logger `logger` (logging.getLogger(__name__)).
Entry(level, msg, arg) == [logger |-> "main", level |-> level, msg |-> msg, arg |-> arg]

\* ------------------------------------------------------------- entry point

\* An emptiness check that never fires.
NoUrlsNever(u) == FALSE

\* `if not urls` of run_break_test.
NoUrls(u) == Len(u) = 0

\* dict.fromkeys(keys) as a list of keys: a key is inserted, at the end, the
\* first time it is seen.
RECURSIVE DictFromKeys(_, _)
DictFromKeys(keys, acc) ==
  IF keys = <<>> THEN acc
  ELSE DictFromKeys(Tail(keys),
                    IF Head(keys) \in Range(acc) THEN acc ELSE Append(acc, Head(keys)))

\* A de-duplication that was forgotten: every listed URL gets a runner.
UniqueUrlsKeepAll(u) == u

\* unique_urls = list(dict.fromkeys(urls))
UniqueUrls(u) == DictFromKeys(u, <<>>)

\* The default of LoadTestRunner's base_dir parameter, which is what
\* run_break_test's `LoadTestRunner()` gets.
DefaultBaseDir == "performance_tests"

Init ==
  /\ base_dir = DefaultBaseDir
  /\ urls \in SeqsUpTo(UrlPool, MaxUrls)
  /\ pc = "start"
  /\ constructed = FALSE
  /\ result = "none"
  /\ mpc = "new"
  /\ outer = "pending"
  /\ gatherCancel = FALSE
  /\ mustCancel = FALSE
  /\ interrupted = FALSE
  /\ unique_urls = <<>>
  /\ task = <<>>
  /\ proc = <<>>
  /\ startOrder = <<>>
  /\ elog = <<>>
  /\ tlog = <<>>
  /\ files = {}
  /\ host = <<>>
  /\ filename = NoFile

\* run_break_test with an empty list: log and return.
EntryNoUrls ==
  /\ pc = "start"
  /\ NoUrls(urls)
  /\ elog' = Append(elog, Entry("ERROR", "No URLs provided", 0))
  /\ pc' = "returned"
  /\ UNCHANGED <<base_dir, urls, constructed, result, mpc, outer, gatherCancel, mustCancel,
                 interrupted, unique_urls, task, proc, startOrder, tlog, files,
                 host, filename>>

\* runner = LoadTestRunner(): Path.mkdir may raise (OSError), outside any try;
\* otherwise asyncio.run starts the main task.
EntryConstruct ==
  /\ pc = "start"
  /\ ~NoUrls(urls)
  /\ \E mkdirOk \in BOOLEAN :
       /\ constructed' = mkdirOk
       /\ pc' = IF mkdirOk THEN "run" ELSE "propagated"
  /\ UNCHANGED <<base_dir, urls, result, mpc, outer, gatherCancel, mustCancel, interrupted,
                 unique_urls, task, proc, startOrder, elog, tlog, files, host,
                 filename>>

\* ------------------------------------------------------------ orchestrator

\* run_concurrent_tests up to `await gather(*tasks)`: one task per unique URL.
OrchStart ==
  /\ pc = "run"
  /\ mpc = "new"
  /\ LET u == UniqueUrls(urls)
         n == Len(u)
     IN /\ unique_urls' = u
        /\ elog' = Append(elog, Entry("INFO", "Starting concurrent tests", n))
        /\ task' = [i \in 1..n |->
                      [url |-> u[i], pc |-> "new", cancelReq |-> FALSE, pending |-> "none"]]
        /\ proc' = [i \in 1..n |-> NoProc]
        /\ tlog' = [i \in 1..n |-> <<>>]
        /\ outer' = IF n = 0 THEN "ok" ELSE "pending"
  /\ mpc' = "gather"
  /\ UNCHANGED <<base_dir, urls, pc, constructed, result, gatherCancel, mustCancel, interrupted,
                 startOrder, files, host, filename>>

\* ------------------------------------------------------------------ runner

\* The event loop is running: inside asyncio.run, before it returns.
LoopRunning == pc \in {"run", "shutdown"}

Tasks == DOMAIN task

\* Runners run one after the other: a runner starts when every runner before
\* it has ended.
MayStartAfterEnd(i) == \A j \in Tasks : j < i => task[j].pc \in Terminal

\* The loop runs ready callbacks first in, first out: the tasks gather created
\* take their first step in creation order, before any of them is resumed.
MayStart(i) == \A j \in Tasks : j < i => task[j].pc # "new"

AllStarted == \A j \in Tasks : task[j].pc # "new"

\* `process.returncode is None`: the loop has not yet seen the process exit.
ReturncodeNone(p) == p.st \in {"running", "exited"}

\* process.terminate()
Terminate(p) == [p EXCEPT !.termSent = @ + 1, !.termLate = @ \/ p.st = "reaped"]

\* The finally block of _run_single_test with `process` bound: terminate and
\* wait when no exit code was seen; `pend` is the exception in flight.
FinallyPc(p, pend) ==
  IF ReturncodeNone(p) THEN "finwait"
  ELSE IF pend = "cancel" THEN "cancelled" ELSE "done"

\* A finally block that terminates without looking at returncode.
FinallyProcUnguarded(p) == Terminate(p)

FinallyProc(p) == IF ReturncodeNone(p) THEN Terminate(p) ELSE p

\* gather's _done_callback (return_exceptions=False) after a child ended with
\* `kind`; `t` is the task table after the child's step.
Settle(t, kind) ==
  IF outer # "pending" THEN outer
  ELSE IF kind = "raised" THEN "error"
  ELSE IF kind = "cancelled" THEN "cancelled"
  ELSE IF kind = "done" /\ \A j \in DOMAIN t : t[j].pc \in Terminal
       THEN (IF gatherCancel THEN "cancelled" ELSE "ok")
  ELSE "pending"

\* Task i moves to `newpc` with `pend` in flight; gather is told when it ended.
Step(i, newpc, pend) ==
  LET t == [task EXCEPT ![i].pc = newpc, ![i].pending = pend, ![i].cancelReq = FALSE]
  IN /\ task' = t
     /\ outer' = Settle(t, newpc)

\* logger.error(f"Error testing {url}: {e}")
ErrorEntry(u) == Entry("ERROR", "Error testing", u)

\* A forwarding that tags every line with the first URL of the run.
LineEntryFirstUrl(u, text) ==
  [logger |-> "main", level |-> "INFO", msg |-> text, arg |-> unique_urls[1]]

\* logger.info(f"[{url}] {text}")
LineEntry(u, text) == [logger |-> "main", level |-> "INFO", msg |-> text, arg |-> u]

\* What the finally block does when create_subprocess_exec raised: `process`
\* was never bound, so evaluating it raises UnboundLocalError.
LaunchFailedPc == "raised"

\* A command line without the --host option.
TargetHostDropped(u) == <<>>

\* The `'--host', url` of cmd: the host the subprocess is pointed at.
TargetHost(u) == u

\* First step of _run_single_test: create_subprocess_exec spawns the child, or
\* raises (Popen failed: embedded null byte in the URL, fork or exec error).
\* The child is spawned with stdout and stderr piped; `amounts` are the
\* amounts of stderr output its run may be going to write.
RunnerLaunch(i, amounts) ==
  /\ LoopRunning
  /\ task[i].pc = "new"
  /\ ~task[i].cancelReq
  /\ MayStart(i)
  /\ startOrder' = Append(startOrder, i)
  /\ \E spawned \in BOOLEAN :
       IF spawned
       THEN /\ \E w \in amounts :
                 proc' = [proc EXCEPT ![i] = [NoProc EXCEPT !.st = "running",
                                                            !.errWant = w,
                                                            !.host = TargetHost(task[i].url),
                                                            !.spawns = proc[i].spawns + 1]]
            /\ Step(i, "launching", "none")
            /\ UNCHANGED tlog
       ELSE /\ tlog' = [tlog EXCEPT ![i] = Append(@, ErrorEntry(task[i].url))]
            /\ Step(i, LaunchFailedPc, "none")
            /\ UNCHANGED proc
  /\ UNCHANGED <<base_dir, urls, pc, constructed, result, mpc, gatherCancel, mustCancel,
                 interrupted, unique_urls, elog, files, host, filename>>

\* The launch where stderr output is left out of the picture: in Spec no
\* child is ever obliged to exit, so a child stuck on its stderr is the child
\* that does not exit.
RunnerStart(i) == RunnerLaunch(i, {0})

\* The launch of a child that writes any amount up to MaxErr to its stderr.
RunnerStartLive(i) == RunnerLaunch(i, 0 .. MaxErr)

\* create_subprocess_exec returns: `process` is bound, the read loop begins.
RunnerConnected(i) ==
  /\ LoopRunning
  /\ AllStarted
  /\ task[i].pc = "launching"
  /\ ~task[i].cancelReq
  /\ Step(i, "reading", "none")
  /\ UNCHANGED <<base_dir, urls, pc, constructed, result, mpc, gatherCancel, mustCancel,
                 interrupted, unique_urls, proc, startOrder, elog, tlog, files,
                 host, filename>>

\* One `await process.stdout.readline()` and the loop body after it. The pipe
\* is not kept as a buffer: the next line the child wrote is chosen when it is
\* read (at most MaxLines per child; buffered lines can still be read after
\* the child has exited). A "bad" line does not decode (UnicodeDecodeError):
\* except logs, finally cleans up. End of input, once the child has exited and
\* the pipe is drained: `await process.wait()`, which returns at once when the
\* exit code is already known. The child writes at most `max` lines, each
\* out of `lines`.
RunnerReadFrom(i, max, lines) ==
  /\ LoopRunning
  /\ AllStarted
  /\ task[i].pc = "reading"
  /\ ~task[i].cancelReq
  /\ LET p == proc[i]
     IN \/ \E line \in lines :
             LET q == [p EXCEPT !.lines = @ + 1, !.got = Append(@, line)]
             IN /\ p.lines < max
                /\ IF ~Decodes(line)
                   THEN /\ tlog' = [tlog EXCEPT ![i] = Append(@, ErrorEntry(task[i].url))]
                        /\ proc' = [proc EXCEPT ![i] = FinallyProc(q)]
                        /\ Step(i, FinallyPc(q, "none"), "none")
                   ELSE /\ tlog' = [tlog EXCEPT ![i] =
                                      IF Strip(line) = <<>> THEN @
                                      ELSE Append(@, LineEntry(task[i].url, Strip(line)))]
                        /\ proc' = [proc EXCEPT ![i] = q]
                        /\ Step(i, "reading", "none")
        \/ /\ p.st \in {"exited", "reaped"}
           /\ Step(i, IF ReturncodeNone(p) THEN "waiting" ELSE FinallyPc(p, "none"), "none")
           /\ UNCHANGED <<proc, tlog>>
  /\ UNCHANGED <<base_dir, urls, pc, constructed, result, mpc, gatherCancel, mustCancel,
                 interrupted, unique_urls, startOrder, elog, files, host, filename>>

RunnerRead(i) == RunnerReadFrom(i, MaxLines, Lines)

\* The read loop on a child that writes up to MaxOut lines out of OutLines.
RunnerReadOut(i) == RunnerReadFrom(i, MaxOut, OutLines)

\* `await process.wait()` (after the read loop, or in the finally block)
\* completes: the task ends, re-raising what was in flight.
RunnerWaitDone(i) ==
  /\ LoopRunning
  /\ task[i].pc \in {"waiting", "finwait"}
  /\ ~task[i].cancelReq
  /\ proc[i].st = "reaped"
  /\ Step(i, FinallyPc(proc[i], task[i].pending), "none")
  /\ UNCHANGED <<base_dir, urls, pc, constructed, result, mpc, gatherCancel, mustCancel,
                 interrupted, unique_urls, proc, startOrder, elog, tlog, files,
                 host, filename>>

\* Where a task ends up when CancelledError is thrown into it at its await.
\*   not started:   the coroutine body never runs;
\*   launching:     create_subprocess_exec kills and reaps the child itself and
\*                  re-raises; `process` is unbound in the finally block;
\*   reading, waiting (line 100, 107): `except Exception` does not catch it,
\*                  the finally block runs;
\*   finwait (line 114): the wait inside the finally block is abandoned.
CancelledPc(t, p) ==
  CASE t.pc = "new" -> "cancelled"
    [] t.pc = "launching" -> LaunchFailedPc
    [] t.pc \in {"reading", "waiting"} -> FinallyPc(p, "cancel")
    [] OTHER -> "cancelled"

CancelledProc(t, p) ==
  CASE t.pc = "launching" -> [p EXCEPT !.st = "reaped", !.code = "kill", !.killed = TRUE]
    [] t.pc \in {"reading", "waiting"} -> FinallyProc(p)
    [] OTHER -> p

\* The task's next step after Task.cancel(): CancelledError at its await.
RunnerCancelled(i) ==
  /\ LoopRunning
  /\ task[i].cancelReq
  /\ task[i].pc \notin Terminal
  /\ IF task[i].pc = "new" THEN MayStart(i) ELSE AllStarted
  /\ proc' = [proc EXCEPT ![i] = CancelledProc(task[i], @)]
  /\ Step(i, CancelledPc(task[i], proc[i]), "cancel")
  /\ UNCHANGED <<base_dir, urls, pc, constructed, result, mpc, gatherCancel, mustCancel,
                 interrupted, unique_urls, startOrder, elog, tlog, files, host,
                 filename>>

\* -------------------------------------------------- the external processes

\* The report save_results writes when the tool quits: `--host url` makes
\* environment.host the runner's URL.
Report(u) == [path |-> ReportPath(u), writer |-> u]

\* How a running child can end now: once it was sent SIGTERM, by that signal
\* ("term"); on its own, as a finished run ("ok") or an abnormal exit
\* ("fail"), only when it has written all its stderr output.
ExitKinds(p) ==
  IF p.termSent > 0 THEN {"term"}
  ELSE IF p.err = p.errWant THEN {"ok", "fail"} ELSE {}

\* The child writes one more unit to its stderr: stderr=PIPE of the launch
\* and no reader, so the write goes through only while the pipe has room.
ProcWriteStderr(i) ==
  /\ proc[i].st = "running"
  /\ proc[i].err < proc[i].errWant
  /\ proc[i].err < PipeCap
  /\ proc' = [proc EXCEPT ![i].err = @ + 1]
  /\ UNCHANGED <<base_dir, urls, pc, constructed, result, mpc, outer, gatherCancel, mustCancel,
                 interrupted, unique_urls, task, startOrder, elog, tlog, files,
                 host, filename>>

\* The child exits and its stdout closes: a finished run ("ok", the report is
\* written), an abnormal exit ("fail", non-zero, no report), or, once it was
\* sent SIGTERM, death by that signal ("term").
ProcExit(i) ==
  /\ proc[i].st = "running"
  /\ \E kind \in ExitKinds(proc[i]) :
       /\ proc' = [proc EXCEPT ![i].st = "exited", ![i].code = kind]
       /\ files' = IF kind = "ok" THEN files \cup {Report(proc[i].host)} ELSE files
  /\ UNCHANGED <<base_dir, urls, pc, constructed, result, mpc, outer, gatherCancel, mustCancel,
                 interrupted, unique_urls, task, startOrder, elog, tlog, host,
                 filename>>

\* The loop's child watcher reaps the child: process.returncode is set.
LoopReap(i) ==
  /\ LoopRunning
  /\ proc[i].st = "exited"
  /\ proc' = [proc EXCEPT ![i].st = "reaped"]
  /\ UNCHANGED <<base_dir, urls, pc, constructed, result, mpc, outer, gatherCancel, mustCancel,
                 interrupted, unique_urls, task, startOrder, elog, tlog, files,
                 host, filename>>

\* ------------------------------------------------- asyncio.run and SIGINT

\* Task.cancel() on every task that is not done.
CancelAll(t) ==
  [i \in DOMAIN t |-> IF t[i].pc \in Terminal THEN t[i] ELSE [t[i] EXCEPT !.cancelReq = TRUE]]

\* How `await gather(*tasks)` ends for run_concurrent_tests.
MainOutcome ==
  IF mustCancel THEN "cancelled"
  ELSE CASE outer = "ok" -> "returned"
         [] outer = "error" -> "raised"
         [] OTHER -> "cancelled"

\* What asyncio.run hands to run_break_test: a cancelled main task after
\* SIGINT becomes KeyboardInterrupt.
RunResult(how) ==
  CASE how = "returned" -> "ok"
    [] how = "raised" -> "error"
    [] OTHER -> IF interrupted THEN "kbd" ELSE "cancelled"

\* The main task resumes from `await gather(*tasks)` and run_concurrent_tests
\* ends; asyncio.run then cancels every task that is left (_cancel_all_tasks).
\* The children's first steps were queued before this wake-up.
MainFinish ==
  /\ pc = "run"
  /\ mpc = "gather"
  /\ AllStarted
  /\ outer # "pending" \/ mustCancel
  /\ mpc' = MainOutcome
  /\ result' = RunResult(MainOutcome)
  /\ pc' = "shutdown"
  /\ task' = CancelAll(task)
  /\ UNCHANGED <<base_dir, urls, constructed, outer, gatherCancel, mustCancel, interrupted,
                 unique_urls, proc, startOrder, elog, tlog, files, host, filename>>

\* The terminal message of run_break_test for each way asyncio.run ends.
TerminalEntry(res) ==
  CASE res = "ok" -> Entry("INFO", "Load tests completed successfully", 0)
    [] res = "kbd" -> Entry("INFO", "Tests interrupted by user", 0)
    [] OTHER -> Entry("ERROR", "Tests failed with error", 0)

\* Every task left has ended: asyncio.run returns or raises, run_break_test
\* logs its terminal message and returns (a bare CancelledError is caught by
\* neither except clause).
ShutdownDone ==
  /\ pc = "shutdown"
  /\ \A i \in Tasks : task[i].pc \in Terminal
  /\ IF result = "cancelled"
     THEN pc' = "propagated" /\ UNCHANGED elog
     ELSE pc' = "returned" /\ elog' = Append(elog, TerminalEntry(result))
  /\ UNCHANGED <<base_dir, urls, constructed, result, mpc, outer, gatherCancel, mustCancel,
                 interrupted, unique_urls, task, proc, startOrder, tlog, files,
                 host, filename>>

\* The operator's SIGINT while run_concurrent_tests awaits gather: the handler
\* cancels the main task, which cancels gather's future and with it every
\* child not done; when that future is already done the main task itself is
\* marked to be cancelled at its next step.
Interrupt ==
  /\ pc = "run"
  /\ mpc = "gather"
  /\ ~interrupted
  /\ interrupted' = TRUE
  /\ IF outer = "pending"
     THEN /\ gatherCancel' = TRUE
          /\ task' = CancelAll(task)
          /\ UNCHANGED mustCancel
     ELSE /\ mustCancel' = TRUE
          /\ UNCHANGED <<gatherCancel, task>>
  /\ UNCHANGED <<base_dir, urls, pc, constructed, result, mpc, outer, unique_urls, proc,
                 startOrder, elog, tlog, files, host, filename>>

Next ==
  \/ EntryNoUrls
  \/ EntryConstruct
  \/ OrchStart
  \/ MainFinish
  \/ ShutdownDone
  \/ Interrupt
  \/ \E i \in Tasks : RunnerStart(i)
  \/ \E i \in Tasks : RunnerConnected(i)
  \/ \E i \in Tasks : RunnerRead(i)
  \/ \E i \in Tasks : RunnerWaitDone(i)
  \/ \E i \in Tasks : RunnerCancelled(i)
  \/ \E i \in Tasks : ProcExit(i)
  \/ \E i \in Tasks : LoopReap(i)

Spec == Init /\ [][Next]_vars

\* ------------------------------- uninterrupted runs, stderr output included

\* The program left alone by the operator (no SIGINT), with children that
\* write to their piped stderr.
NextLive ==
  \/ EntryNoUrls
  \/ EntryConstruct
  \/ OrchStart
  \/ MainFinish
  \/ ShutdownDone
  \/ \E i \in Tasks : RunnerStartLive(i)
  \/ \E i \in Tasks : RunnerConnected(i)
  \/ \E i \in Tasks : RunnerRead(i)
  \/ \E i \in Tasks : RunnerWaitDone(i)
  \/ \E i \in Tasks : RunnerCancelled(i)
  \/ \E i \in Tasks : ProcWriteStderr(i)
  \/ \E i \in Tasks : ProcExit(i)
  \/ \E i \in Tasks : LoopReap(i)

\* Fair scheduling: the loop and the operating system keep running whatever
\* can run. No step of NextLive can be repeated forever, so weak fairness of
\* NextLive is: a run stops only where nothing can run.
SpecLive == Init /\ [][NextLive]_vars /\ WF_vars(NextLive)

\* ------------------------------------- uninterrupted runs, longer outputs

\* The program left alone by the operator, with children that write up to
\* MaxOut lines out of OutLines.
NextOut ==
  \/ EntryNoUrls
  \/ EntryConstruct
  \/ OrchStart
  \/ MainFinish
  \/ ShutdownDone
  \/ \E i \in Tasks : RunnerStart(i)
  \/ \E i \in Tasks : RunnerConnected(i)
  \/ \E i \in Tasks : RunnerReadOut(i)
  \/ \E i \in Tasks : RunnerWaitDone(i)
  \/ \E i \in Tasks : RunnerCancelled(i)
  \/ \E i \in Tasks : ProcExit(i)
  \/ \E i \in Tasks : LoopReap(i)

\* Two distinct URLs, in the order they are listed.
OutUrls == << HTTPS \o <<"a", ".", "b">>, HTTP \o <<"a", ".", "b">> >>

\* Lists without a repeated URL (what the orchestrator makes of any list
\* before it creates the runners), one of each length: none, one, two URLs.
InitOut == Init /\ \E n \in 0 .. Len(OutUrls) : urls = SubSeq(OutUrls, 1, n)

SpecOut == InitOut /\ [][NextOut]_vars

\* ------------------------------------------ the report file name, on its own

HostParts == {HTTPS, HTTP, <<"a">>, <<".">>, <<"/">>}

RECURSIVE Flatten(_)
Flatten(parts) == IF parts = <<>> THEN <<>> ELSE Head(parts) \o Flatten(Tail(parts))

\* The hosts save_results is tried on: every string of at most MaxParts parts,
\* and https://example.com.
Hosts == {Flatten(s) : s \in SeqsUpTo(HostParts, MaxParts)} \cup {ExampleUrl}

\* Directories a LoadTestRunner is made with: the default and another one.
BaseDirs == {DefaultBaseDir, "out"}

InitFile ==
  /\ base_dir \in BaseDirs
  /\ host \in Hosts
  /\ filename = NoFile
  /\ urls = <<>>
  /\ pc = "start"
  /\ constructed = FALSE
  /\ result = "none"
  /\ mpc = "new"
  /\ outer = "pending"
  /\ gatherCancel = FALSE
  /\ mustCancel = FALSE
  /\ interrupted = FALSE
  /\ unique_urls = <<>>
  /\ task = <<>>
  /\ proc = <<>>
  /\ startOrder = <<>>
  /\ elog = <<>>
  /\ tlog = <<>>
  /\ files = {}

\* save_results computes the path it opens from environment.host.
SaveResults ==
  /\ filename = NoFile
  /\ filename' = ReportPath(host)
  /\ UNCHANGED <<host, progVars>>

NextFile == SaveResults

SpecFile == InitFile /\ [][NextFile]_vars

\* ------------------------------------------------------------------ claims

Ended == {"returned", "raised", "cancelled"}

\* The index of the first occurrence of x in s.
FirstIndex(s, x) == CHOOSE i \in DOMAIN s : s[i] = x /\ \A j \in DOMAIN s : s[j] = x => i <= j

HasError(i) == \E k \in DOMAIN tlog[i] : tlog[i][k].level = "ERROR" /\ tlog[i][k].arg = task[i].url

\* C1: once run_concurrent_tests has built its tasks there is exactly one
\* runner per distinct URL of the input list, the runners are in the order of
\* each URL's first occurrence, and their bodies start in that order.
C1_OneRunnerPerDistinctUrl ==
  mpc # "new" =>
    /\ \A i \in Tasks : task[i].url \in Range(urls)
    /\ \A u \in Range(urls) : Cardinality({i \in Tasks : task[i].url = u}) = 1
    /\ \A i, j \in Tasks :
         i < j => FirstIndex(urls, task[i].url) < FirstIndex(urls, task[j].url)
    /\ \A k \in DOMAIN startOrder : startOrder[k] = k

\* A list with a repeated URL between two distinct ones, all runners started.
C1_Witness ==
  /\ Len(urls) = 3
  /\ urls[1] = urls[3]
  /\ urls[1] # urls[2]
  /\ Len(task) = 2
  /\ Len(startOrder) = 2

\* C2: no runner ever ends by raising: _run_single_test never lets an
\* exception past its boundary.
C2_RunnerNeverRaises == \A i \in Tasks : task[i].pc # "raised"

\* C3: without an operator interruption, a runner that has had no failure of
\* its own is never cancelled, and its subprocess is never signalled or killed.
C3_SiblingsIsolated ==
  ~interrupted =>
    \A i \in Tasks :
      ~HasError(i) =>
        /\ ~task[i].cancelReq
        /\ task[i].pending # "cancel"
        /\ task[i].pc # "cancelled"
        /\ proc[i].termSent = 0
        /\ ~proc[i].killed

\* C4: after an operator interruption, once run_break_test has returned every
\* launched subprocess has exited and been reaped.
C4_NoProcessOutlivesReturn ==
  (interrupted /\ pc = "returned") =>
    \A i \in Tasks : proc[i].st \in {"none", "reaped"}

\* C5: run_break_test never propagates an exception to its caller.
C5_NeverPropagates == pc # "propagated"

\* C6: with an empty URL list run_break_test only logs the error and returns:
\* no LoadTestRunner, no orchestrator step, no runner, no subprocess.
C6_EmptyListLaunchesNothing ==
  urls = <<>> =>
    /\ pc \in {"start", "returned"}
    /\ ~constructed
    /\ mpc = "new"
    /\ task = <<>>
    /\ proc = <<>>
    /\ startOrder = <<>>
    /\ elog = (IF pc = "start" THEN <<>> ELSE <<Entry("ERROR", "No URLs provided", 0)>>)

\* The call with an empty list has returned.
C6_Witness == urls = <<>> /\ pc = "returned" /\ Len(elog) = 1

\* C7: run_concurrent_tests has ended (returned or raised) only when every
\* runner task is in a terminal state.
C7_OrchestratorEndsAfterAllRunners ==
  mpc \in Ended => \A i \in Tasks : task[i].pc \in Terminal

\* C8: no report file is written by the runs of two different URLs, and when
\* every run of the batch has completed there is one report file per URL.
C8_OneReportFilePerUrl ==
  /\ \A f, g \in files : f.path = g.path => f.writer = g.writer
  /\ (\A i \in Tasks : task[i].pc = "done" /\ proc[i].code = "ok") =>
       Cardinality({f.path : f \in files}) = Len(task)

\* The reference transform: one leading scheme prefix stripped, then every "/"
\* and "." replaced by "_".
RefStrip(h) ==
  IF Len(h) >= Len(HTTPS) /\ SubSeq(h, 1, Len(HTTPS)) = HTTPS
  THEN SubSeq(h, Len(HTTPS) + 1, Len(h))
  ELSE IF Len(h) >= Len(HTTP) /\ SubSeq(h, 1, Len(HTTP)) = HTTP
       THEN SubSeq(h, Len(HTTP) + 1, Len(h))
       ELSE h

RefName(h) ==
  LET b == RefStrip(h)
  IN [i \in 1..Len(b) |-> IF b[i] \in {"/", "."} THEN "_" ELSE b[i]] \o DotJson

\* C9: the path save_results opens is the reference transform of the host,
\* under performance_tests/break_check; https://example.com gives
\* example_com.json.
C9_FilenameIsReferenceTransform ==
  filename # NoFile =>
    /\ filename.dir = <<"performance_tests", "break_check">>
    /\ filename.name = RefName(host)
    /\ (host = ExampleUrl => filename.name = ExampleName)

\* C10: a runner whose subprocess exited abnormally has logged an error naming
\* its URL by the time it ends.
C10_AbnormalExitLogged ==
  \A i \in Tasks :
    (task[i].pc \in Terminal /\ proc[i].code = "fail") => HasError(i)

\* C11: an uninterrupted run whose children would each finish and exit on
\* their own, whatever they write to their piped stdout and stderr, never
\* gets stuck: as long as run_break_test has not ended, something can run
\* (so under fair scheduling every read loop reaches end of input, every
\* runner ends and run_break_test ends).
C11_NeverStuck == pc \in {"returned", "propagated"} \/ ENABLED NextLive

\* C12: on every way out of _run_single_test (normal, exception,
\* cancellation) a subprocess that was launched has exited and has been
\* reaped by the time the runner's task has ended.
C12_ReapedBeforeTaskEnds ==
  \A i \in Tasks : task[i].pc \in Terminal => proc[i].st \in {"none", "reaped"}

\* The entries runner i has forwarded.
Forwarded(i) ==
  LET IsInfo(e) == e.level = "INFO" IN SelectSeq(tlog[i], IsInfo)

\* The lines runner i has received that decode and are not empty once
\* stripped.
Kept(i) ==
  LET NonEmpty(l) == Decodes(l) /\ Strip(l) # <<>> IN SelectSeq(proc[i].got, NonEmpty)

C14_ToolOutputOnOwnChannel ==
  /\ \A i \in Tasks : \A k \in DOMAIN tlog[i] :
       tlog[i][k].logger = IF tlog[i][k].level = "INFO" THEN "locust_output" ELSE "main"
  /\ \A k \in DOMAIN elog : elog[k].logger = "main"

\* C15: each runner launches at most one subprocess, a launched subprocess
\* has the one target host that is its runner's URL, and the launches of a
\* run are never more than the distinct URLs of the input list.
C15_OneLaunchPerRunner ==
  /\ \A i \in Tasks :
       /\ proc[i].spawns <= 1
       /\ proc[i].st # "none" => (proc[i].spawns = 1 /\ proc[i].host = task[i].url)
  /\ Cardinality({i \in Tasks : proc[i].spawns > 0}) <= Cardinality(Range(urls))

\* A URL listed twice among three: two runners, each has launched its child.
C15_Witness ==
  /\ Len(urls) = 3
  /\ Cardinality(Range(urls)) = 2
  /\ Len(task) = 2
  /\ \A i \in Tasks : proc[i].spawns = 1 /\ proc[i].host = task[i].url

\* C16: the runners are all started without waiting for any of them to
\* finish: a runner that has not started, has not been cancelled and has no
\* unstarted runner before it can launch its subprocess at once, whatever the
\* other runners and their subprocesses are doing (so all the subprocesses of
\* a run can be running at the same time).
C16_StartsNeverWait ==
  \A i \in Tasks :
    ( /\ pc \in {"run", "shutdown"}
      /\ task[i].pc = "new"
      /\ ~task[i].cancelReq
      /\ \A j \in Tasks : j < i => task[j].pc # "new" )
    => ENABLED RunnerStart(i)

\* Two runners, both subprocesses running at the same time.
C16_Witness ==
  /\ Len(task) = 2
  /\ \A i \in Tasks : proc[i].st = "running" /\ task[i].pc \notin Terminal

\* C17: a runner sends the termination signal only to a subprocess whose exit
\* code it has not yet seen, never more than once, and not at all on the
\* normal path (end of input reached, wait completed, nothing logged as an
\* error).
C17_TerminateOnlyLiveOnce ==
  \A i \in Tasks :
    /\ ~proc[i].termLate
    /\ proc[i].termSent <= 1
    /\ (task[i].pc = "done" /\ ~HasError(i)) => proc[i].termSent = 0

\* The first runner ended on the normal path, the second had to terminate
\* its subprocess, which died of the signal.
C17_Witness ==
  /\ Len(task) = 2
  /\ task[1].pc = "done" /\ ~HasError(1) /\ proc[1].st = "reaped"
  /\ task[2].pc = "done" /\ proc[2].termSent = 1 /\ proc[2].code = "term"

\* C18: for every base_dir a LoadTestRunner is made with, the report of a
\* completed run is written to <base_dir>/break_check/<sanitized_url>.json.
C18_ReportUnderBaseDir ==
  filename # NoFile =>
    /\ filename.dir = <<base_dir, "break_check">>
    /\ filename.name = UrlPart(host) \o DotJson

TerminalMsgs ==
  {"Load tests completed successfully", "Tests interrupted by user", "Tests failed with error"}

\* The terminal messages run_break_test has logged.
Terminals ==
  LET IsTerminal(e) == e.msg \in TerminalMsgs IN SelectSeq(elog, IsTerminal)

\* C19: a call of run_break_test with a non-empty list never logs more than
\* one terminal message and has logged exactly one when it is over; that
\* message is 'completed successfully' exactly when the orchestrator returned
\* without exception or interruption; a call with an empty list logs only
\* 'No URLs provided'.
C19_OneTerminalMessage ==
  /\ Len(Terminals) <= 1
  /\ (urls # <<>> /\ pc \in {"returned", "propagated"}) =>
       /\ Len(Terminals) = 1
       /\ Terminals[1].msg = "Load tests completed successfully"
            <=> (mpc = "returned" /\ ~interrupted)
  /\ urls = <<>> => \A k \in DOMAIN elog : elog[k].msg = "No URLs provided"

====
